---- MODULE Spec2Model ----
(***************************************************************************)
(* CursorBackgroundAgent (src/src/cli/simple-commands/                     *)
(* cursor-background-agent.js): one supervisor instance, the host calls    *)
(* made on it (start, stop, restart, and cleanup from the SIGINT/SIGTERM   *)
(* handlers) and the files it keeps under <workspace>/.cursor.             *)
(*                                                                         *)
(* Every async method is cut at its awaits: one action per synchronous     *)
(* stretch, so calls that the host issues without awaiting the previous    *)
(* one interleave exactly where the event loop lets them.                  *)
(*                                                                         *)
(* The constructor assigns the own data property this.isRunning = false    *)
(* (line 29).  The class also declares a method isRunning() (lines         *)
(* 461-471), which lives on the prototype and is shadowed by that own      *)
(* property on every instance.  Line 53, `await this.isRunning()`, thus    *)
(* calls a boolean: it throws a TypeError inside start()'s try block, and  *)
(* start() always takes its catch branch (lines 70-74).                    *)
(*                                                                         *)
(* Spec is the supervisor under the host calls.  PolicySpec and TaskSpec   *)
(* run the methods behind line 53 (startMainProcess, startMonitoring, the  *)
(* periodic-task bodies, loadMemory, saveMemory) on the constructed        *)
(* object, one call at a time: PolicySpec the child and the health check,  *)
(* TaskSpec the memory store and the synchronisation, ConfigSpec the       *)
(* configuration file.  TimerSpec starts the interval callbacks the way    *)
(* setInterval does, while earlier callbacks are suspended, and StopSpec   *)
(* lets the host call stop() among the health checks.                      *)
(***************************************************************************)
EXTENDS Integers, FiniteSets, Sequences, TLC

\* Host calls issued on the one instance in a run.
MaxCalls == 3

NULL == "null"

\* Keys and payloads a memory snapshot may hold.
Keys == {"k1", "k2"}
Payloads == {"a", "b"}

\* Date.now() and the entries' timestamps run over 0..MaxTime, counted in
\* units of 24 hours.
MaxTime == 2

\* maxAge of performMemoryCleanup (24 * 60 * 60 * 1000 ms), in the same unit.
maxAge == 1

\* this.maxRestarts
maxRestarts == 5

\* Failures handleProcessFailure() counts before the runs stop driving it.
MaxTicks == 7

\* Children the driven runs of startMainProcess() spawn.
MaxSpawns == 2

\* Log writes in flight that are told apart; a further one is merged with
\* the last.
MaxLogWrites == 2

\* The three interval handles of startMonitoring().
AllTimers == {"healthCheckInterval", "memoryCleanupInterval", "githubSyncInterval"}

VARIABLES
    process,       \* this.process: NULL or a child handle
    isRunning,     \* the own data property this.isRunning
    restartCount,  \* this.restartCount
    memoryStore,   \* this.memoryStore: the Map, key -> entry
    timers,        \* the interval handles that are armed
    spawned,       \* how many times spawn() (line 251) has run
    pidFile,       \* .cursor/background-agent.pid exists
    memoryFile,    \* content of .cursor/memory.json
    calls,         \* the calls issued so far, in order
    hostExited,    \* process.exit(0) has run (lines 573, 579)
    clock,         \* Date.now()
    githubAPI,     \* this.githubAPI: NULL or the client object
    githubConnected, \* this.githubConnected
    alive,         \* the children spawned at line 251 that have not exited
    logPending,    \* writeFile promises of log() (line 520) not yet settled
    logLost,       \* a log line was dropped by the catch of lines 520-522
    settings,      \* this.port, this.logLevel, this.autoStart
    configFile,    \* content of .cursor/config.json
    orphaned,      \* intervals still armed whose handle field was overwritten
    killed,        \* children that were sent SIGKILL (line 447)
    evicted        \* keys the loop of lines 372-376 has deleted from the Map

\* What the host calls start(), stop(), restart() and cleanup() leave alone.
collab == <<clock, githubAPI, githubConnected, alive, killed, settings, configFile>>

conf == <<settings, configFile>>

logs == <<logPending, logLost>>

\* The intervals whose callbacks still fire: the ones the handle fields name
\* and the ones no field names any more.
Armed == timers \cup orphaned

vars == <<process, isRunning, restartCount, memoryStore, timers, spawned,
          pidFile, memoryFile, calls, hostExited, clock, githubAPI, githubConnected,
          alive, logPending, logLost, settings, configFile, orphaned, killed,
          evicted>>

----------------------------------------------------------------------------
\* A memory entry as the eviction loop reads it: a payload and a numeric
\* timestamp.
Entries == [payload : Payloads, timestamp : 0..MaxTime]

\* new Map(): no key.
EmptyStore == [k \in {} |-> [payload |-> "a", timestamp |-> 0]]

\* The contents a Map of entries can have.
Stores == UNION {[ks -> Entries] : ks \in SUBSET Keys}

\* Disk contents of memory.json: absent, unparsable, or a JSON object.
FileMissing == [kind |-> "missing", data |-> EmptyStore]
FileCorrupt == [kind |-> "corrupt", data |-> EmptyStore]
FileJson(store) == [kind |-> "json", data |-> store]

MemoryFiles == {FileMissing, FileCorrupt} \cup {FileJson(st) : st \in Stores}

\* The snapshots a run of the host calls starts from.
InitFiles ==
    {FileMissing, FileCorrupt, FileJson(EmptyStore),
     FileJson([k \in {"k1"} |-> [payload |-> "a", timestamp |-> 0]])}

\* Variant of Serialize: the timestamps are not written.
Serialize_NoTimestamp(store) ==
    FileJson([k \in DOMAIN store |-> [store[k] EXCEPT !.timestamp = 0]])

\* JSON.stringify(Object.fromEntries(this.memoryStore)) as written by saveMemory.
Serialize(store) == FileJson(store)

\* How the writeFile of line 506 can end: the snapshot is written, the write
\* is refused and the file is as before, or it breaks off after truncating
\* the file.  Lines 507-509 swallow both failures.
WriteOutcomes == {"written", "refused", "torn"}

WriteFile(file, text, outcome) ==
    IF outcome = "written" THEN text
    ELSE IF outcome = "torn" THEN FileCorrupt
    ELSE file

\* How loadMemory() ends: line 495 catches every failure of lines 489-494.
LoadReturn(file) == "returned"

\* Variant of LoadMemory: the Map is emptied before the snapshot is read.
LoadMemory_Replace(store, file) ==
    IF file.kind = "json" THEN file.data ELSE EmptyStore

\* loadMemory(), lines 487-498: every key of the parsed snapshot is set in
\* the Map, over what the Map holds; a read or parse failure is swallowed at
\* line 495 and leaves the Map as it is.
LoadMemory(store, file) ==
    IF file.kind = "json"
    THEN [k \in DOMAIN store \cup DOMAIN file.data |->
            IF k \in DOMAIN file.data THEN file.data[k] ELSE store[k]]
    ELSE store

\* Variant of Expired: an entry is expired from age maxAge on.
Expired_AtMaxAge(entry, now) == now - entry.timestamp >= maxAge

\* Line 373: the test that evicts an entry.
Expired(entry, now) == now - entry.timestamp > maxAge

\* Variant of Evict: a run that finds nothing expired deletes the entries
\* that have reached maxAge.
Evict_Progressive(store, now) ==
    IF \E x \in DOMAIN store : Expired(store[x], now)
    THEN [k \in {x \in DOMAIN store : ~Expired(store[x], now)} |-> store[k]]
    ELSE [k \in {x \in DOMAIN store : now - store[x].timestamp < maxAge} |-> store[k]]

\* The loop of lines 372-376: the expired entries are deleted, the others are
\* left as they are.
Evict(store, now) ==
    [k \in {x \in DOMAIN store : ~Expired(store[x], now)} |-> store[k]]

\* The client object of line 154.
Client == "GitHubAPIClient"

\* How initializeGitHubIntegration() can go: the import of line 153 fails,
\* authenticate() throws, or it answers false or true.
AuthOutcomes == {"importFails", "authThrows", "authFalse", "authTrue"}

\* this.memoryManager: read at line 400, assigned nowhere.
memoryManager == "undefined"

\* The id under which line 401 files the fetched page.
SyncKey == "github:repositories"

\* How listRepositories() of line 397 can go.
FetchOutcomes == {"throws", "fails", "ok"}

\* Variant of SyncOutcome: the catch of line 415 is gone.
SyncOutcome_NoCatch(api, connected, fetch) ==
    IF api = NULL \/ ~connected THEN "skipped"
    ELSE IF fetch = "throws" THEN "thrown"
    ELSE IF fetch = "fails" THEN "returned"
    ELSE IF memoryManager = "undefined" THEN "thrown"
    ELSE "stored"

\* performGitHubSync(), lines 390-418: it returns at line 393 without a
\* connected client; a rejected fetch is caught at line 415; a fetch that
\* reports no success is dropped; a successful one reaches line 400, where
\* reading .store of the missing memoryManager throws into the same catch.
SyncOutcome(api, connected, fetch) ==
    IF api = NULL \/ ~connected THEN "skipped"
    ELSE IF fetch = "throws" THEN "fetchCaught"
    ELSE IF fetch = "fails" THEN "returned"
    ELSE IF memoryManager = "undefined" THEN "storeCaught"
    ELSE "stored"

\* initializeGitHubIntegration(), lines 151-167: the two fields afterwards.
GitHubInit(outcome, api, connected) ==
    IF outcome = "importFails" THEN <<api, connected>>
    ELSE IF outcome = "authThrows" THEN <<Client, connected>>
    ELSE <<Client, outcome = "authTrue">>

\* Variant of Callable: the lookup of line 53 finds the method of lines
\* 461-471 instead of the field.
Callable_Method(v) == TRUE

\* A JavaScript value can be called only if it is a function; the field
\* isRunning holds a boolean.
Callable(v) == v \notin BOOLEAN

\* The method isRunning() of lines 461-471: false without a child handle,
\* otherwise the signal-0 probe of the child's pid.
IsRunningMethod(proc) ==
    IF proc = NULL THEN "false" ELSE "true"

\* Line 53: `await this.isRunning()`.  The property lookup finds the own
\* field first; calling it throws unless it is callable.
ProbeIsRunning(field, proc) ==
    IF Callable(field) THEN IsRunningMethod(proc) ELSE "TypeError"

\* Variant of StartReturn: start() without the try/catch of lines 49 and 70-74,
\* so the failed probe of line 53 leaves start() as an exception.
StartReturn_NoCatch(field, proc) ==
    LET probe == ProbeIsRunning(field, proc) IN
    IF probe = "TypeError" THEN "thrown"
    ELSE IF probe = "true" THEN "true"
    ELSE "continue"

\* start(), lines 48-75, entered with the given field values: what it returns
\* before its first await, or "continue" when it goes on to line 59.
StartReturn(field, proc) ==
    LET probe == ProbeIsRunning(field, proc) IN
    IF probe = "TypeError" THEN "false"        \* catch, lines 70-74
    ELSE IF probe = "true" THEN "true"         \* lines 53-56
    ELSE "continue"

\* The settings the constructor leaves when it is given no options,
\* lines 21-23.
DefaultSettings == [port |-> 3001, logLevel |-> "info", autoStart |-> FALSE]

\* The settings the constructor leaves for the options of the command line
\* (lines 560-565): an option that is not given, or is 0, "" or false, falls
\* back to the default of lines 21-23.
Construct(port, logLevel, autoStart) ==
    [port      |-> IF port = 0 THEN DefaultSettings.port ELSE port,
     logLevel  |-> IF logLevel = "" THEN DefaultSettings.logLevel ELSE logLevel,
     autoStart |-> autoStart]

\* The objects the command line constructs: with no flag, or with --port,
\* --log-level, --auto-start given.
Constructed ==
    {Construct(port, logLevel, autoStart) :
        port \in {0, 9000}, logLevel \in {"", "warn"}, autoStart \in BOOLEAN}

\* The fields a backgroundAgent section of .cursor/config.json may hold, as
\* initializeBackgroundAgent() of cursor.js (lines 335-343) writes them.
ConfigFields == {"port", "logLevel", "autoStart"}

\* Values the file may give them; 0 and "" are the ones JavaScript's `||`
\* takes for missing.
FilePorts == {0, 8080}

FileLevels == {"", "debug"}

\* A backgroundAgent section: the keys it has and their values.  The value
\* kept for a key it does not have is never read.
Section(present, port, logLevel, autoStart) ==
    [present   |-> present,
     port      |-> IF "port" \in present THEN port ELSE 0,
     logLevel  |-> IF "logLevel" \in present THEN logLevel ELSE "",
     autoStart |-> IF "autoStart" \in present THEN autoStart ELSE FALSE]

NoSection == Section({}, 0, "", FALSE)

Sections ==
    {Section(present, port, logLevel, autoStart) :
        present \in SUBSET ConfigFields, port \in FilePorts,
        logLevel \in FileLevels, autoStart \in BOOLEAN}

\* .cursor/config.json as loadConfiguration() meets it: missing, not JSON, or
\* an object with or without a backgroundAgent section.
ConfigFile(kind, hasSection, section) ==
    [kind |-> kind, hasSection |-> hasSection, section |-> section]

ConfigMissing == ConfigFile("missing", FALSE, NoSection)

ConfigFiles ==
    {ConfigMissing, ConfigFile("corrupt", FALSE, NoSection),
     ConfigFile("json", FALSE, NoSection)}
    \cup {ConfigFile("json", TRUE, sec) : sec \in Sections}

\* `value || current` of lines 192-193 for a key of the section.
OrElse(has, value, falsy, current) ==
    IF has /\ value # falsy THEN value ELSE current

\* loadConfiguration(), lines 185-200: a file that cannot be read or parsed
\* lands in the catch of lines 197-199; without a backgroundAgent section
\* nothing is assigned (line 191); with one, port and logLevel are assigned
\* through `||` and autoStart is not read.
LoadConfiguration(current, file) ==
    IF file.kind # "json" \/ ~file.hasSection THEN current
    ELSE [port      |-> OrElse("port" \in file.section.present,
                               file.section.port, 0, current.port),
          logLevel  |-> OrElse("logLevel" \in file.section.present,
                               file.section.logLevel, "", current.logLevel),
          autoStart |-> current.autoStart]

\* log(), lines 515-523, called n times in one step: each call builds its
\* line and starts an appending writeFile whose promise it does not await.
log(n) ==
    /\ logPending' = IF logPending + n > MaxLogWrites
                     THEN MaxLogWrites ELSE logPending + n
    /\ UNCHANGED logLost

\* The log calls of a start() that returned r: the catch of lines 70-74 emits
\* 'error', whose listener (lines 538-540) logs it.
StartLogs(r) == IF r = "false" THEN 1 ELSE 0

----------------------------------------------------------------------------
Init ==
    /\ process = NULL
    /\ isRunning = FALSE
    /\ restartCount = 0
    /\ memoryStore = EmptyStore
    /\ timers = {}
    /\ orphaned = {}
    /\ killed = {}
    /\ evicted = {}
    /\ spawned = 0
    /\ pidFile \in BOOLEAN
    /\ memoryFile \in InitFiles
    /\ calls = <<>>
    /\ hostExited = FALSE
    /\ clock = 0
    /\ githubAPI = NULL
    /\ githubConnected = FALSE
    /\ alive = {}
    /\ logPending = 0
    /\ logLost = FALSE
    /\ settings = DefaultSettings
    /\ configFile = ConfigMissing

\* Variant of StatusObject: the restart count reported is one ahead of the field.
StatusObject_OffByOne(running, proc, count, connected, store) ==
    [isRunning |-> running, pid |-> proc, restartCount |-> count + 1,
     githubConnected |-> connected, memoryEntries |-> Cardinality(DOMAIN store)]

\* The object getStatus() builds, lines 121-129, from the fields this model
\* carries (port is settings.port, which no caller of the object reads back;
\* uptime is read from a field the model does not carry).
StatusObject(running, proc, count, connected, store) ==
    [isRunning |-> running, pid |-> proc, restartCount |-> count,
     githubConnected |-> connected, memoryEntries |-> Cardinality(DOMAIN store)]

\* The status slot of a call that is not getStatus().
NoStatus == StatusObject(FALSE, NULL, 0, FALSE, EmptyStore)

\* A call: its operation, where it is suspended, what it returned, the
\* snapshot text saveMemory() built for it, the object getStatus() returned,
\* and whether every earlier call had returned when it was issued.
Call(op, pc, ret, buf) ==
    [op |-> op, pc |-> pc, ret |-> ret, buf |-> buf, status |-> NoStatus,
     alone |-> \A j \in DOMAIN calls : calls[j].pc = "done"]

CanIssue == ~hostExited /\ Len(calls) < MaxCalls

Pending(i, pc) == ~hostExited /\ i \in DOMAIN calls /\ calls[i].pc = pc

\* Variant of stopMonitoring: the health interval is left armed.
stopMonitoring_KeepsHealth(armed) == armed \cap {"healthCheckInterval"}

\* stopMonitoring(), lines 319-329: clearInterval on every handle that is set.
stopMonitoring(armed) == armed \ AllTimers

\* stop(), lines 82-87, up to its first await: without a child handle it goes
\* straight to the marker clean-up; with one it signals and waits for the exit.
StopPrefixPc(proc) == IF proc = NULL THEN "access" ELSE "waitExit"

\* Variant of AccessOutcome: the rejection of access() is not caught at line 93
\* and reaches the outer catch of stop().
AccessOutcome_NoCatch(exists) == IF exists THEN "rm" ELSE "thrown"

\* Lines 90-95: access() rejects when the marker is absent, and the inner
\* try/catch swallows the rejection.
AccessOutcome(exists) == IF exists THEN "rm" ELSE "caught"

\* Variant of AfterStop: restart() runs start() as soon as stop() is through,
\* without the delay of line 113.
AfterStop_NoCooldown(op) == "done"

\* The calls that run restart(): the host's, and the health check's through
\* handleProcessFailure (line 428).
RunsRestart(op) == op \in {"restart", "health"}

\* What follows the completed stop() in each caller: stop() itself returns,
\* restart() (line 113) arms the one-second timer, cleanup() (line 554)
\* returns to the signal handler.
AfterStop(op) == IF op \in {"restart", "health"} THEN "cooldown" ELSE "done"

\* Variant of RestartCounter: restart() counts itself as a restart.
RestartCounter_Counts(n) == n + 1

\* restart(), lines 110-115, never writes this.restartCount.
RestartCounter(n) == n

\* Variant of LogWriteFailed: log() without the catch of lines 520-522, so
\* the rejected write is an unhandled rejection, which ends the host process.
LogWriteFailed_NoCatch == "unhandled"

\* What becomes of a log write that is rejected: the catch of lines 520-522
\* drops it.
LogWriteFailed == "ignored"

\* The writeFile started by a log() call settles: the line is appended, or
\* the write is rejected (directory missing, file not writable).
LogWriteSettles ==
    /\ logPending > 0
    /\ logPending' = logPending - 1
    /\ \E ok \in BOOLEAN :
          /\ logLost' = (logLost \/ ~ok)
          /\ hostExited' = (hostExited \/ (~ok /\ LogWriteFailed = "unhandled"))
    /\ UNCHANGED <<process, isRunning, restartCount, memoryStore, evicted, timers, orphaned, spawned,
                   pidFile, memoryFile, calls>>
    /\ UNCHANGED collab

----------------------------------------------------------------------------
\* Where a call that runs start() stands when start() has returned r.
StartPc(r) == IF r = "continue" THEN "init" ELSE "done"

\* Host calls start().  Lines 49-56 and 70-74 run without suspension.
HostStart ==
    /\ CanIssue
    /\ LET r == StartReturn(isRunning, process) IN
          /\ calls' = Append(calls, Call("start", StartPc(r), r, FileMissing))
          /\ log(StartLogs(r))
    /\ UNCHANGED <<process, isRunning, restartCount, memoryStore, evicted, timers, orphaned, spawned,
                   pidFile, memoryFile, hostExited>>
    /\ UNCHANGED collab

\* Host calls stop(): lines 82-91 up to `await access`.
HostStop ==
    /\ CanIssue
    /\ calls' = Append(calls, Call("stop", StopPrefixPc(process), "none", FileMissing))
    /\ UNCHANGED <<process, isRunning, restartCount, memoryStore, evicted, timers, orphaned, spawned,
                   pidFile, memoryFile, hostExited>>
    /\ UNCHANGED collab
    /\ UNCHANGED logs

\* Host calls restart(): line 112 enters stop().
HostRestart ==
    /\ CanIssue
    /\ calls' = Append(calls, Call("restart", StopPrefixPc(process), "none", FileMissing))
    /\ restartCount' = RestartCounter(restartCount)
    /\ UNCHANGED <<process, isRunning, memoryStore, evicted, timers, orphaned, spawned,
                   pidFile, memoryFile, hostExited>>
    /\ UNCHANGED collab
    /\ UNCHANGED logs

\* Host calls getStatus() (line 596): lines 121-131 run without suspension.
HostGetStatus ==
    /\ CanIssue
    /\ calls' = Append(calls,
          [Call("status", "done", "returned", FileMissing) EXCEPT
              !.status = StatusObject(isRunning, process, restartCount,
                                      githubConnected, memoryStore)])
    /\ UNCHANGED <<process, isRunning, restartCount, memoryStore, evicted, timers, orphaned, spawned,
                   pidFile, memoryFile, hostExited>>
    /\ UNCHANGED collab
    /\ UNCHANGED logs

\* SIGINT or SIGTERM (lines 570-580): cleanup() runs stopMonitoring() and
\* saveMemory() up to `await writeFile` (line 506).
HostCleanup ==
    /\ CanIssue
    /\ timers' = stopMonitoring(timers)
    /\ UNCHANGED orphaned
    /\ calls' = Append(calls, Call("cleanup", "save", "none", Serialize(memoryStore)))
    /\ UNCHANGED <<process, isRunning, restartCount, memoryStore, evicted, spawned,
                   pidFile, memoryFile, hostExited>>
    /\ UNCHANGED collab
    /\ UNCHANGED logs

\* writeFile of saveMemory() settles: the snapshot is on disk, or the write
\* failed and lines 507-509 swallow it.  cleanup() then enters stop().
CleanupSaveDone(i) ==
    /\ Pending(i, "save")
    /\ \E ok \in BOOLEAN :
          memoryFile' = IF ok THEN calls[i].buf ELSE memoryFile
    /\ calls' = [calls EXCEPT ![i].pc = StopPrefixPc(process)]
    /\ UNCHANGED <<process, isRunning, restartCount, memoryStore, evicted, timers, orphaned, spawned,
                   pidFile, hostExited>>
    /\ UNCHANGED collab
    /\ UNCHANGED logs

\* Lines 97-100 for call i, then what its caller does next.  The 'stopped'
\* listener (lines 533-536) logs and runs stopMonitoring().  A restart whose
\* caller runs start() at once gets start()'s value.
StopFinish(i) ==
    LET op  == calls[i].op
        nxt == AfterStop(op)
    IN  /\ isRunning' = FALSE
        /\ timers' = stopMonitoring(timers)
        /\ UNCHANGED orphaned
        /\ hostExited' = (op = "cleanup" /\ nxt = "done")
        /\ calls' = [calls EXCEPT
              ![i].pc  = IF nxt = "done" /\ RunsRestart(op)
                         THEN StartPc(StartReturn(FALSE, process)) ELSE nxt,
              ![i].ret = IF nxt # "done" \/ op = "cleanup" THEN "none"
                         ELSE IF RunsRestart(op) THEN StartReturn(FALSE, process)
                         ELSE "true"]
        /\ log(1 + IF nxt = "done" /\ RunsRestart(op)
                   THEN StartLogs(StartReturn(FALSE, process)) ELSE 0)

\* Lines 101-104: the outer catch of stop() returns false; restart() and
\* cleanup() ignore the value and go on.
StopThrow(i) ==
    LET op  == calls[i].op
        nxt == AfterStop(op)
    IN  /\ hostExited' = (op = "cleanup" /\ nxt = "done")
        /\ calls' = [calls EXCEPT
              ![i].pc  = IF nxt = "done" /\ RunsRestart(op)
                         THEN StartPc(StartReturn(isRunning, process)) ELSE nxt,
              ![i].ret = IF nxt # "done" \/ op = "cleanup" THEN "none"
                         ELSE IF RunsRestart(op) THEN StartReturn(isRunning, process)
                         ELSE "false"]
        /\ log(IF nxt = "done" /\ RunsRestart(op)
               THEN StartLogs(StartReturn(isRunning, process)) ELSE 0)
        /\ UNCHANGED <<isRunning, timers, orphaned>>

\* access() of line 91 settles.
StopAccessDone(i) ==
    /\ Pending(i, "access")
    /\ LET out == AccessOutcome(pidFile) IN
          IF out = "rm" THEN
              /\ calls' = [calls EXCEPT ![i].pc = "rm"]
              /\ UNCHANGED <<isRunning, timers, orphaned, hostExited, logPending, logLost>>
          ELSE IF out = "caught" THEN StopFinish(i)
          ELSE StopThrow(i)
    /\ UNCHANGED <<process, restartCount, memoryStore, evicted, spawned, pidFile, memoryFile>>
    /\ UNCHANGED collab

\* `rm` of line 92 settles: the marker is gone, or rm failed (a concurrent
\* stop removed it first, or the file system refused) and line 93 swallows it.
StopRmDone(i) ==
    /\ Pending(i, "rm")
    /\ \E ok \in BOOLEAN : pidFile' = IF ok THEN FALSE ELSE pidFile
    /\ StopFinish(i)
    /\ UNCHANGED <<process, restartCount, memoryStore, evicted, spawned, memoryFile>>
    /\ UNCHANGED collab

\* The one-second timer of line 113 fires and line 114 runs start().
RestartCooldownDone(i) ==
    /\ Pending(i, "cooldown")
    /\ LET r == StartReturn(isRunning, process) IN
          /\ calls' = [calls EXCEPT ![i].pc = StartPc(r), ![i].ret = r]
          /\ log(StartLogs(r))
    /\ UNCHANGED <<process, isRunning, restartCount, memoryStore, evicted, timers, orphaned, spawned,
                   pidFile, memoryFile, hostExited>>
    /\ UNCHANGED collab

Next ==
    \/ HostStart
    \/ HostStop
    \/ HostRestart
    \/ HostCleanup
    \/ HostGetStatus
    \/ \E i \in 1..MaxCalls : CleanupSaveDone(i)
    \/ \E i \in 1..MaxCalls : StopAccessDone(i)
    \/ \E i \in 1..MaxCalls : StopRmDone(i)
    \/ \E i \in 1..MaxCalls : RestartCooldownDone(i)
    \/ LogWriteSettles

Spec == Init /\ [][Next]_vars

----------------------------------------------------------------------------
\* The code this model has no action for is never entered: no call stands at
\* line 59 of start() ("init") or in waitForProcessExit ("waitExit"), because
\* start() throws at line 53 and this.process stays null.
UnreachedCode ==
    /\ process = NULL
    /\ \A i \in DOMAIN calls : calls[i].pc \notin {"init", "waitExit"}

Returned(i, op) == i \in DOMAIN calls /\ calls[i].op = op /\ calls[i].pc = "done"

\* Call i of operation op returns in this step.
Returns(i, op) ==
    /\ i \in DOMAIN calls
    /\ calls[i].op = op
    /\ calls[i].pc # "done"
    /\ calls'[i].pc = "done"

----------------------------------------------------------------------------
\* C2: start() on a fresh supervisor (not running, no child) spawns exactly
\* one child, arms the three periodic tasks, leaves the running flag true and
\* returns true.
C2_FreshStartSucceeds ==
    (Len(calls) = 1 /\ Returned(1, "start")) =>
        /\ calls[1].ret = "true"
        /\ spawned = 1
        /\ timers = AllTimers
        /\ isRunning = TRUE

\* C4: stop() is idempotent: every stop(), also a second one in a row and one
\* on a supervisor that is already stopped, returns true and leaves the
\* supervisor stopped (running flag false, no child handle, no task armed).
C4_StopIdempotent ==
    \A i \in DOMAIN calls :
        Returned(i, "stop") =>
            /\ calls[i].ret = "true"
            /\ isRunning = FALSE
            /\ process = NULL
            /\ timers = {}
    /\ orphaned = {}
    /\ killed = {}
    /\ evicted = {}

\* C4 witness: two stop() calls in a row, the second issued after the first
\* had returned, both returned true.
C4_Witness ==
    \E i \in DOMAIN calls :
        /\ i + 1 \in DOMAIN calls
        /\ Returned(i, "stop") /\ Returned(i + 1, "stop")
        /\ calls[i + 1].alone
        /\ calls[i].ret = "true" /\ calls[i + 1].ret = "true"

\* C7: when stop() returns true the snapshot on disk equals the in-memory
\* store at that moment.
C7_StopFlushesMemory ==
    [][\A i \in DOMAIN calls :
          (Returns(i, "stop") /\ calls'[i].ret = "true")
              => memoryFile' = Serialize(memoryStore')]_vars

\* C8: restart() runs stop(), then the cool-down delay, then start(), in that
\* order: it enters stop() first, the delay begins only out of the completed
\* stop(), start() returns only out of the elapsed delay, and no child is
\* spawned before then.
C8_RestartOrder ==
    [][/\ \A i \in DOMAIN calls' :
            (i \notin DOMAIN calls /\ calls'[i].op = "restart")
                => calls'[i].pc \in {"access", "waitExit"}
       /\ \A i \in DOMAIN calls :
            calls[i].op = "restart" =>
                /\ (calls[i].pc # "cooldown" /\ calls'[i].pc = "cooldown")
                       => calls[i].pc \in {"access", "rm", "waitExit"}
                /\ (calls[i].pc # "done" /\ calls'[i].pc = "done")
                       => calls[i].pc = "cooldown"
                /\ (calls[i].pc # "cooldown" /\ spawned' # spawned) => FALSE]_vars

\* C8 witness: a restart() has gone through all three phases and returned.
C8_Witness ==
    \E i \in DOMAIN calls : Returned(i, "restart") /\ calls[i].ret # "none"

\* C9: explicit restart() calls never change restartCount: no step of a
\* host-requested restart (its call, its stop, its delay, its start) moves the
\* counter toward the ceiling.
C9_ExplicitRestartKeepsCount ==
    [][(\E i \in DOMAIN calls' :
           /\ calls'[i].op = "restart"
           /\ (i \notin DOMAIN calls \/ calls'[i] # calls[i]))
       => restartCount' = restartCount]_vars

\* C9 witness: two explicit restarts have returned and the counter is still 0.
C9_Witness ==
    /\ restartCount = 0
    /\ \E i, j \in DOMAIN calls :
          i # j /\ Returned(i, "restart") /\ Returned(j, "restart")

----------------------------------------------------------------------------
\* The methods behind start(): start() never reaches line 59, so the runs below
\* drive startMainProcess(), startMonitoring() and the periodic-task bodies
\* on the constructed object directly, one call at a time, while the children
\* and the timers they leave behind run on their own.

\* The handle spawn() returns for the n-th child (line 251), named by its pid.
Child(n) == ToString(n)

\* A driven call is issued when the one before it has returned, and takes its
\* place.
UnitIssue(c) ==
    /\ \A j \in DOMAIN calls : calls[j].pc = "done"
    /\ calls' = <<c>>

\* Interval callbacks that can be under way at once in the runs that let
\* them overlap.
MaxOverlap == 2

\* Failures handleProcessFailure() counts in those runs.
MaxOverlapTicks == 2

\* A call that has not returned.
Underway(c) == c.pc # "done"

\* Variant of Enqueue: an interval callback waits for the callbacks before it
\* to return.
Enqueue_Serialized(c) ==
    /\ ~hostExited
    /\ Len(SelectSeq(calls, Underway)) < MaxOverlap
    /\ \A j \in DOMAIN calls : calls[j].pc = "done"
    /\ calls' = Append(SelectSeq(calls, Underway), c)

\* An interval fires: setInterval (lines 301-313) runs the callback whatever
\* earlier callbacks are still suspended at.  The calls that have returned
\* are dropped from the record.
Enqueue(c) ==
    /\ ~hostExited
    /\ Len(SelectSeq(calls, Underway)) < MaxOverlap
    /\ calls' = Append(SelectSeq(calls, Underway), c)

\* How a run issues the call c of an interval callback: one at a time, or as
\* the timer does.
Issue(overlap, c) == IF overlap THEN Enqueue(c) ELSE UnitIssue(c)

\* getStatus(), lines 121-131.
UnitGetStatus ==
    /\ UnitIssue([Call("status", "done", "returned", FileMissing) EXCEPT
              !.status = StatusObject(isRunning, process, restartCount,
                                      githubConnected, memoryStore)])
    /\ UNCHANGED <<process, isRunning, restartCount, memoryStore, evicted, timers, orphaned, spawned,
                   pidFile, memoryFile, hostExited>>
    /\ UNCHANGED collab
    /\ UNCHANGED logs

\* startMonitoring(), lines 299-314: three intervals are created and their
\* handles assigned to the three fields, whatever the fields held: an interval
\* whose handle is overwritten stays armed and no clearInterval() of lines
\* 319-329 can reach it any more.
startMonitoring(armed, lost) == lost \cup armed

UnitStartMonitoring ==
    /\ UnitIssue(Call("startMonitoring", "done", "returned", FileMissing))
    /\ orphaned' = startMonitoring(timers, orphaned)
    /\ timers' = AllTimers
    /\ UNCHANGED <<process, isRunning, restartCount, memoryStore, evicted, spawned,
                   pidFile, memoryFile, hostExited>>
    /\ UNCHANGED collab
    /\ UNCHANGED logs

\* startMainProcess(), lines 206-283: spawn() hands back a handle and the
\* observers and the start-up timer are registered.  A spawn that fails
\* leaves no child and fires the error observer (lines 256-259), which
\* rejects the promise; the timer stays armed either way.
UnitStartMainProcess ==
    /\ spawned < MaxSpawns
    /\ \E ok \in BOOLEAN :
          /\ alive' = IF ok THEN alive \cup {Child(spawned + 1)} ELSE alive
          /\ UnitIssue(Call("startMainProcess", "startupWait",
                            IF ok THEN "none" ELSE "rejected", FileMissing))
    /\ process' = Child(spawned + 1)
    /\ spawned' = spawned + 1
    /\ UNCHANGED logs
    /\ UNCHANGED conf
    /\ UNCHANGED <<isRunning, restartCount, memoryStore, evicted, timers, orphaned,
                   pidFile, memoryFile, hostExited>>
    /\ UNCHANGED <<clock, githubAPI, githubConnected, killed>>

\* The start-up timer of lines 284-292 fires: the flag is set, savePID()
\* (lines 476-482) writes the marker or swallows the failure (no pid to
\* write after a failed spawn), and the promise resolves unless it was
\* rejected before.
StartupTimerFires(i) ==
    /\ Pending(i, "startupWait")
    /\ isRunning' = TRUE
    /\ \E ok \in BOOLEAN :
          pidFile' = IF ok /\ calls[i].ret # "rejected" THEN TRUE ELSE pidFile
    /\ calls' = [calls EXCEPT ![i].pc = "done",
                              ![i].ret = IF @ = "rejected" THEN @ ELSE "resolved"]
    /\ UNCHANGED <<process, restartCount, memoryStore, evicted, timers, orphaned, spawned,
                   memoryFile, hostExited>>
    /\ UNCHANGED collab
    /\ UNCHANGED logs

\* A child exits, by itself or killed from outside.  Its exit observer
\* (lines 261-265) clears the flag, and the exit listener of a pending
\* waitForProcessExit() on it (lines 451-454) resolves the wait.
ChildExit(c) ==
    /\ c \in alive
    /\ alive' = alive \ {c}
    /\ UNCHANGED killed
    /\ isRunning' = FALSE
    /\ calls' = [i \in DOMAIN calls |->
                    IF calls[i].pc = "waitExit" /\ process = c
                    THEN [calls[i] EXCEPT !.pc = "access"] ELSE calls[i]]
    /\ UNCHANGED <<process, restartCount, memoryStore, evicted, timers, orphaned, spawned,
                   pidFile, memoryFile, hostExited>>
    /\ UNCHANGED <<clock, githubAPI, githubConnected>>
    /\ UNCHANGED logs
    /\ UNCHANGED conf

\* A live child writes a line to stdout or stderr: the data listeners of
\* lines 267-281 log it.
ChildOutput(c) ==
    /\ c \in alive
    /\ log(1)
    /\ UNCHANGED <<process, isRunning, restartCount, memoryStore, evicted, timers, orphaned, spawned,
                   pidFile, memoryFile, calls, hostExited>>
    /\ UNCHANGED collab

\* Variant of FlagAfterForcedKill: the forced kill also clears the flag.
FlagAfterForcedKill_Cleared(running) == FALSE

\* The timeout callback of lines 445-449 does not write this.isRunning.
FlagAfterForcedKill(running) == running

\* The five-second timer of waitForProcessExit() fires (lines 445-449):
\* SIGKILL is sent to whatever this.process names and the wait resolves; a
\* child still alive exits later.
WaitExitTimeout(i) ==
    /\ Pending(i, "waitExit")
    /\ calls' = [calls EXCEPT ![i].pc = "access"]
    /\ isRunning' = FlagAfterForcedKill(isRunning)
    /\ killed' = killed \cup {process}
    /\ UNCHANGED <<process, restartCount, memoryStore, evicted, timers, orphaned, spawned,
                   pidFile, memoryFile, hostExited>>
    /\ UNCHANGED <<clock, githubAPI, githubConnected, alive>>
    /\ UNCHANGED conf
    /\ UNCHANGED logs

\* Line 337: what the health check makes of the flag and the handle.
HealthVerdict(running, proc) ==
    IF ~running \/ proc = NULL THEN "failure" ELSE "healthy"

\* Line 424: every failure handled is counted.
FailureCount(n) == n + 1

\* Variant of WithinCeiling: every failure is answered with restart().
WithinCeiling_Unbounded(n) == TRUE

\* Line 426: the failures that are answered with restart().
WithinCeiling(n) == n <= maxRestarts

\* The health interval fires: performHealthCheck(), lines 334-361.  On a
\* failure handleProcessFailure() (lines 423-433) counts it and either enters
\* restart(), which runs stop() up to its first await, or emits 'failed',
\* whose listener (lines 542-545) runs stopMonitoring().  Otherwise the heap
\* check may run performMemoryCleanup() (which logs its completion, line
\* 381), a client that is not connected is
\* initialised again, and the check is logged as passed (line 356).
HealthCheck(overlap) ==
    /\ "healthCheckInterval" \in Armed
    /\ restartCount < (IF overlap THEN MaxOverlapTicks ELSE MaxTicks)
    /\ IF HealthVerdict(isRunning, process) = "failure"
       THEN /\ restartCount' = FailureCount(restartCount)
            /\ IF WithinCeiling(restartCount')
               THEN /\ Issue(overlap, Call("health", StopPrefixPc(process), "none", FileMissing))
                    /\ UNCHANGED <<timers, orphaned>>
                    /\ UNCHANGED logs
               ELSE /\ Issue(overlap, Call("health", "done", "failed", FileMissing))
                    /\ timers' = stopMonitoring(timers)
                    /\ UNCHANGED orphaned
                    /\ log(1)
            /\ UNCHANGED <<memoryStore, evicted, memoryFile, githubAPI, githubConnected>>
       ELSE /\ Issue(overlap, Call("health", "done", "passed", FileMissing))
            /\ \E high \in BOOLEAN, ok \in BOOLEAN :
                  /\ memoryStore' = IF high THEN Evict(memoryStore, clock) ELSE memoryStore
                  /\ evicted' = evicted \cup (DOMAIN memoryStore \ DOMAIN memoryStore')
                  /\ memoryFile' = IF high /\ ok THEN Serialize(memoryStore') ELSE memoryFile
                  /\ log(IF high THEN 2 ELSE 1)
            /\ \E auth \in AuthOutcomes :
                  LET g == IF githubAPI # NULL /\ ~githubConnected
                           THEN GitHubInit(auth, githubAPI, githubConnected)
                           ELSE <<githubAPI, githubConnected>>
                  IN  githubAPI' = g[1] /\ githubConnected' = g[2]
            /\ UNCHANGED <<restartCount, timers, orphaned>>
    /\ UNCHANGED <<process, isRunning, spawned, pidFile, hostExited, clock, alive, killed>>
    /\ UNCHANGED conf

\* The health interval fires in a run that issues one call at a time.
HealthCheckTick == HealthCheck(FALSE)

\* start() on a second CursorBackgroundAgent constructed for the same
\* workspace.  Its fields are those of lines 28-29 and its start() reads
\* nothing else: lines 48-62 never open the marker.
SecondStart ==
    /\ LET r == StartReturn(FALSE, NULL) IN
          /\ UnitIssue(Call("secondStart", StartPc(r), r, FileMissing))
          /\ log(StartLogs(r))
    /\ UNCHANGED <<process, isRunning, restartCount, memoryStore, evicted, timers, orphaned, spawned,
                   pidFile, memoryFile, hostExited>>
    /\ UNCHANGED collab

\* CursorIntegration.startBackground(), cursor.js lines 150-182:
\* isBackgroundAgentRunning() (lines 361-369) finds the marker and the call
\* returns at line 157; without it spawnBackgroundAgent() (lines 371-375)
\* hands back a mock object and starts no process.
IntegrationStartBackground ==
    /\ UnitIssue(Call("startBackground", "done",
                      IF pidFile THEN "alreadyRunning" ELSE "mockStarted",
                      FileMissing))
    /\ UNCHANGED <<process, isRunning, restartCount, memoryStore, evicted, timers, orphaned, spawned,
                   pidFile, memoryFile, hostExited>>
    /\ UNCHANGED collab
    /\ UNCHANGED logs

\* stop() driven on the object, lines 82-86: with a handle SIGTERM is sent
\* and the exit awaited.
UnitStop ==
    /\ UnitIssue(Call("stop", StopPrefixPc(process), "none", FileMissing))
    /\ UNCHANGED <<process, isRunning, restartCount, memoryStore, evicted, timers, orphaned, spawned,
                   pidFile, memoryFile, hostExited>>
    /\ UNCHANGED collab
    /\ UNCHANGED logs

PolicyNext ==
    \/ UnitGetStatus
    \/ UnitStartMonitoring
    \/ UnitStartMainProcess
    \/ UnitStop
    \/ SecondStart
    \/ IntegrationStartBackground
    \/ HealthCheckTick
    \/ \E n \in 1..MaxSpawns : ChildExit(Child(n))
    \/ \E n \in 1..MaxSpawns : ChildOutput(Child(n))
    \/ LogWriteSettles
    \/ \E i \in DOMAIN calls : StartupTimerFires(i)
    \/ \E i \in DOMAIN calls : WaitExitTimeout(i)
    \/ \E i \in DOMAIN calls : StopAccessDone(i)
    \/ \E i \in DOMAIN calls : StopRmDone(i)
    \/ \E i \in DOMAIN calls : RestartCooldownDone(i)

PolicySpec == Init /\ [][PolicyNext]_vars

----------------------------------------------------------------------------
\* The memory and synchronisation tasks, driven like the health check.

\* The constructed object with any snapshot on disk.
TaskInit ==
    /\ process = NULL
    /\ isRunning = FALSE
    /\ restartCount = 0
    /\ memoryStore = EmptyStore
    /\ timers = {}
    /\ orphaned = {}
    /\ killed = {}
    /\ evicted = {}
    /\ spawned = 0
    /\ pidFile = FALSE
    /\ memoryFile \in MemoryFiles
    /\ calls = <<>>
    /\ hostExited = FALSE
    /\ clock = 0
    /\ githubAPI = NULL
    /\ githubConnected = FALSE
    /\ alive = {}
    /\ logPending = 0
    /\ logLost = FALSE
    /\ settings = DefaultSettings
    /\ configFile = ConfigMissing

\* Time passes.
ClockAdvance ==
    /\ ~hostExited
    /\ clock < MaxTime
    /\ clock' = clock + 1
    /\ UNCHANGED <<process, isRunning, restartCount, memoryStore, evicted, timers, orphaned, spawned,
                   pidFile, memoryFile, calls, hostExited, githubAPI, githubConnected,
                   alive, killed>>
    /\ UNCHANGED logs
    /\ UNCHANGED conf

\* initializeGitHubIntegration(), lines 151-167.
UnitInitGitHub ==
    /\ ~hostExited
    /\ UnitIssue(Call("initGitHub", "done", "returned", FileMissing))
    /\ \E auth \in AuthOutcomes :
          LET g == GitHubInit(auth, githubAPI, githubConnected)
          IN  githubAPI' = g[1] /\ githubConnected' = g[2]
    /\ UNCHANGED <<process, isRunning, restartCount, memoryStore, evicted, timers, orphaned, spawned,
                   pidFile, memoryFile, hostExited, clock, alive, killed>>
    /\ UNCHANGED logs
    /\ UNCHANGED conf

\* initializeMemoryManagement(), lines 172-180, which runs loadMemory().
UnitLoadMemory ==
    /\ ~hostExited
    /\ UnitIssue(Call("loadMemory", "done", LoadReturn(memoryFile), FileMissing))
    /\ memoryStore' = LoadMemory(memoryStore, memoryFile)
    /\ UNCHANGED evicted
    /\ UNCHANGED <<process, isRunning, restartCount, timers, orphaned, spawned,
                   pidFile, memoryFile, hostExited>>
    /\ UNCHANGED collab
    /\ UNCHANGED logs

\* saveMemory(), lines 503-506, up to `await writeFile`.
UnitSaveMemory ==
    /\ ~hostExited
    /\ UnitIssue(Call("saveMemory", "save", "none", Serialize(memoryStore)))
    /\ UNCHANGED <<process, isRunning, restartCount, memoryStore, evicted, timers, orphaned, spawned,
                   pidFile, memoryFile, hostExited>>
    /\ UNCHANGED collab
    /\ UNCHANGED logs

\* The cleanup interval fires: performMemoryCleanup(), lines 366-379, evicts
\* and enters saveMemory() up to `await writeFile`.
MemoryCleanupTick ==
    /\ ~hostExited
    /\ "memoryCleanupInterval" \in Armed
    /\ memoryStore' = Evict(memoryStore, clock)
    /\ evicted' = evicted \cup (DOMAIN memoryStore \ DOMAIN memoryStore')
    /\ UnitIssue(Call("memoryCleanup", "save", "none", Serialize(memoryStore')))
    /\ UNCHANGED <<process, isRunning, restartCount, timers, orphaned, spawned,
                   pidFile, memoryFile, hostExited>>
    /\ UNCHANGED collab
    /\ UNCHANGED logs

\* The writeFile of a driven saveMemory() settles; the call ends with the
\* outcome of the write, and performMemoryCleanup() logs its completion
\* (line 381) whatever the outcome, saveMemory() having swallowed it.
SaveMemoryDone(i) ==
    /\ Pending(i, "save")
    /\ \E outcome \in WriteOutcomes :
          /\ memoryFile' = WriteFile(memoryFile, calls[i].buf, outcome)
          /\ calls' = [calls EXCEPT ![i].pc = "done", ![i].ret = outcome]
    /\ log(IF calls[i].op = "memoryCleanup" THEN 1 ELSE 0)
    /\ UNCHANGED <<process, isRunning, restartCount, memoryStore, evicted, timers, orphaned, spawned,
                   pidFile, hostExited>>
    /\ UNCHANGED collab

\* The sync interval fires: performGitHubSync(), lines 390-418.  The Map is
\* not written on any path; a rejection that left the method would leave the
\* interval callback of lines 311-313 unhandled and end the host process.
GitHubSyncTick ==
    /\ ~hostExited
    /\ "githubSyncInterval" \in Armed
    /\ \E fetch \in FetchOutcomes :
          LET out == SyncOutcome(githubAPI, githubConnected, fetch) IN
          /\ UnitIssue(Call("githubSync", "done", out, FileMissing))
          /\ hostExited' = (out = "thrown")
          /\ log(IF out = "stored" THEN 1 ELSE 0)
    /\ UNCHANGED <<process, isRunning, restartCount, memoryStore, evicted, timers, orphaned, spawned,
                   pidFile, memoryFile>>
    /\ UNCHANGED collab

TaskNext ==
    \/ ClockAdvance
    \/ UnitGetStatus
    \/ UnitStartMonitoring
    \/ UnitInitGitHub
    \/ UnitLoadMemory
    \/ UnitSaveMemory
    \/ MemoryCleanupTick
    \/ GitHubSyncTick
    \/ \E i \in DOMAIN calls : SaveMemoryDone(i)
    \/ LogWriteSettles

TaskSpec == TaskInit /\ [][TaskNext]_vars

----------------------------------------------------------------------------
\* The interval callbacks as setInterval runs them: each tick starts its
\* callback at once, and callbacks suspended at an await stay under way.
\* The log writes started in these runs stay in flight; their settling is
\* LogWriteSettles of the other specifications.

\* The sync interval fires: performGitHubSync(), lines 390-397, up to
\* `await listRepositories`; without a connected client it returns at 393.
GitHubSyncBegin ==
    /\ "githubSyncInterval" \in Armed
    /\ Enqueue(IF githubAPI = NULL \/ ~githubConnected
               THEN Call("githubSync", "done",
                         SyncOutcome(githubAPI, githubConnected, "ok"), FileMissing)
               ELSE Call("githubSync", "fetch", "none", FileMissing))
    /\ UNCHANGED <<process, isRunning, restartCount, memoryStore, evicted, timers, orphaned, spawned,
                   pidFile, memoryFile, hostExited>>
    /\ UNCHANGED collab
    /\ UNCHANGED logs

\* listRepositories() of line 397 settles for call i, and lines 398-417 run.
GitHubSyncFetchSettles(i) ==
    /\ Pending(i, "fetch")
    /\ \E fetch \in FetchOutcomes :
          LET out == SyncOutcome(Client, TRUE, fetch) IN
          /\ calls' = [calls EXCEPT ![i].pc = "done", ![i].ret = out]
          /\ hostExited' = (out = "thrown")
          /\ log(IF out = "stored" THEN 1 ELSE 0)
    /\ UNCHANGED <<process, isRunning, restartCount, memoryStore, evicted, timers, orphaned, spawned,
                   pidFile, memoryFile>>
    /\ UNCHANGED collab

\* The health interval fires, whatever is under way.
TimerHealthCheck == HealthCheck(TRUE)

\* Children spawned in the runs that let calls overlap.
MaxOverlapSpawns == 1

\* startMainProcess() driven on the constructed object in those runs.
OverlapStartMainProcess ==
    /\ spawned < MaxOverlapSpawns
    /\ UnitStartMainProcess

\* startMonitoring() driven once on the constructed object, as line 65 runs
\* it once in a start().
ArmOnce ==
    /\ timers = {}
    /\ orphaned = {}
    /\ UnitStartMonitoring

TimerNext ==
    \/ ArmOnce
    \/ UnitInitGitHub
    \/ OverlapStartMainProcess
    \/ TimerHealthCheck
    \/ GitHubSyncBegin
    \/ \E n \in 1..MaxSpawns : ChildExit(Child(n))
    \/ \E i \in DOMAIN calls : GitHubSyncFetchSettles(i)
    \/ \E i \in DOMAIN calls : StartupTimerFires(i)
    \/ \E i \in DOMAIN calls : WaitExitTimeout(i)
    \/ \E i \in DOMAIN calls : StopAccessDone(i)
    \/ \E i \in DOMAIN calls : StopRmDone(i)
    \/ \E i \in DOMAIN calls : RestartCooldownDone(i)

TimerSpec == Init /\ [][TimerNext]_vars

-----------------------------------------------------------------------------
\* The host's stop() among the health checks: the interval fires whatever is
\* under way, and the host calls stop() whatever the supervisor is doing.

\* The host calls stop() (lines 80-87) while other calls are suspended.
OverlapStop ==
    /\ Enqueue(Call("stop", StopPrefixPc(process), "none", FileMissing))
    /\ UNCHANGED <<process, isRunning, restartCount, memoryStore, evicted, timers, orphaned,
                   spawned, pidFile, memoryFile, hostExited>>
    /\ UNCHANGED collab
    /\ UNCHANGED logs

StopNext ==
    \/ ArmOnce
    \/ OverlapStartMainProcess
    \/ TimerHealthCheck
    \/ OverlapStop
    \/ \E n \in 1..MaxSpawns : ChildExit(Child(n))
    \/ \E i \in DOMAIN calls : StartupTimerFires(i)
    \/ \E i \in DOMAIN calls : WaitExitTimeout(i)
    \/ \E i \in DOMAIN calls : StopAccessDone(i)
    \/ \E i \in DOMAIN calls : StopRmDone(i)
    \/ \E i \in DOMAIN calls : RestartCooldownDone(i)

StopSpec == Init /\ [][StopNext]_vars

----------------------------------------------------------------------------
\* The configuration, driven like the tasks.

\* The constructed object, with any configuration on disk.
ConfigInit ==
    /\ process = NULL
    /\ isRunning = FALSE
    /\ restartCount = 0
    /\ memoryStore = EmptyStore
    /\ timers = {}
    /\ orphaned = {}
    /\ killed = {}
    /\ evicted = {}
    /\ spawned = 0
    /\ pidFile = FALSE
    /\ memoryFile = FileMissing
    /\ calls = <<>>
    /\ hostExited = FALSE
    /\ clock = 0
    /\ githubAPI = NULL
    /\ githubConnected = FALSE
    /\ alive = {}
    /\ logPending = 0
    /\ logLost = FALSE
    /\ settings \in Constructed
    /\ configFile \in ConfigFiles

\* loadConfiguration() driven on the object.
UnitLoadConfiguration ==
    /\ UnitIssue(Call("loadConfiguration", "done", "returned", FileMissing))
    /\ settings' = LoadConfiguration(settings, configFile)
    /\ UNCHANGED <<process, isRunning, restartCount, memoryStore, evicted, timers, orphaned, spawned,
                   pidFile, memoryFile, hostExited, clock, githubAPI,
                   githubConnected, alive, killed, configFile>>
    /\ UNCHANGED logs

\* CursorIntegration.initializeBackgroundAgent(), cursor.js lines 335-343,
\* through saveConfig() (lines 299-303): the file becomes an object whose
\* backgroundAgent section holds the three fields at their initial values.
IntegrationInitConfig ==
    /\ configFile' = ConfigFile("json", TRUE,
                                Section(ConfigFields, DefaultSettings.port,
                                        DefaultSettings.logLevel,
                                        DefaultSettings.autoStart))
    /\ configFile' # configFile
    /\ UNCHANGED <<process, isRunning, restartCount, memoryStore, evicted, timers, orphaned, spawned,
                   pidFile, memoryFile, calls, hostExited, clock, githubAPI,
                   githubConnected, alive, killed, settings>>
    /\ UNCHANGED logs

ConfigNext ==
    \/ UnitLoadConfiguration
    \/ UnitGetStatus
    \/ IntegrationInitConfig

ConfigSpec == ConfigInit /\ [][ConfigNext]_vars

----------------------------------------------------------------------------
\* A step that issues the driven call op.
Issues(op) ==
    /\ \A j \in DOMAIN calls : calls[j].pc = "done"
    /\ calls' # calls
    /\ Len(calls') = 1
    /\ calls'[1].op = op

\* A step in which the writeFile of the driven saveMemory() settles.
SaveSettles ==
    /\ Len(calls) = 1
    /\ calls[1].pc = "save"
    /\ calls'[1].pc = "done"

\* C11: when the health check has handled the failure that ends in 'failed'
\* (the sixth), the status taken next reports running = false and
\* restartCount = 5.
C11_SixthFailureReportsFive ==
    [][(/\ Issues("status")
        /\ Len(calls) = 1
        /\ calls[1].op = "health"
        /\ calls[1].ret = "failed")
       => (/\ calls'[1].status.isRunning = FALSE
           /\ calls'[1].status.restartCount = maxRestarts)]_vars

\* C12: a status taken after the first start() has returned reports
\* running = true and restartCount = 0, the state auto-recovery starts from.
C12_StatusAfterStartIsRunning ==
    (/\ Len(calls) >= 2
     /\ Returned(1, "start")
     /\ calls[2].op = "status")
    => (/\ calls[2].status.isRunning = TRUE
        /\ calls[2].status.restartCount = 0)

\* C13: a health check that runs while the child of the current handle is
\* not alive counts a failure and is not logged as passed.
C13_DeadProcessFailsHealthCheck ==
    [][((Issues("health") \/ restartCount' # restartCount) /\ process \notin alive)
       => (/\ calls'[1].ret # "passed"
           /\ restartCount' = restartCount + 1)]_vars

\* C14: getStatus() changes no field and no file, and the object it returns
\* holds the current values of the fields.
C14_StatusReadOnly ==
    [][Issues("status")
       => (/\ UNCHANGED <<process, isRunning, restartCount, memoryStore, timers,
                          spawned, pidFile, memoryFile, githubAPI, githubConnected,
                          alive>>
           /\ calls'[1].status =
                 [isRunning |-> isRunning, pid |-> process,
                  restartCount |-> restartCount,
                  githubConnected |-> githubConnected,
                  memoryEntries |-> Cardinality(DOMAIN memoryStore)])]_vars

C14_Witness ==
    /\ Len(calls) = 1
    /\ calls[1].op = "status"
    /\ calls[1].status.isRunning = TRUE
    /\ calls[1].status.pid # NULL
    /\ calls[1].status.restartCount > 0
    /\ timers = AllTimers

\* C15: the eviction of a memory cleanup leaves no entry older than maxAge,
\* adds none, and keeps every entry of age at most maxAge with its payload
\* and timestamp.
C15_EvictsExactlyExpired ==
    [][Issues("memoryCleanup")
       => (/\ DOMAIN memoryStore' \subseteq DOMAIN memoryStore
           /\ \A k \in DOMAIN memoryStore' :
                 clock - memoryStore'[k].timestamp <= maxAge
           /\ \A k \in DOMAIN memoryStore :
                 clock - memoryStore[k].timestamp <= maxAge
                 => (k \in DOMAIN memoryStore' /\ memoryStore'[k] = memoryStore[k]))]_vars

C15_Witness ==
    /\ Len(calls) = 1
    /\ calls[1].op = "memoryCleanup"
    /\ calls[1].pc = "save"
    /\ memoryFile.kind = "json"
    /\ \E k \in DOMAIN memoryStore : clock - memoryStore[k].timestamp = maxAge
    /\ \E k \in DOMAIN memoryFile.data \ DOMAIN memoryStore :
          clock - memoryFile.data[k].timestamp = maxAge + 1

C18_SyncStoresFetchedPage ==
    [][(/\ Issues("githubSync")
        /\ githubAPI # NULL
        /\ githubConnected
        /\ calls'[1].ret \notin {"fetchCaught", "returned"})
       => SyncKey \in DOMAIN memoryStore']_vars

\* C19: a sync that fails, or is skipped for want of a connection, leaves
\* the flag, the handle, the restart count and the timers alone, starts no
\* child and does not end the host.
C19_SyncFailureIsHarmless ==
    [][(Issues("githubSync") /\ calls'[1].ret # "stored")
       => (/\ UNCHANGED <<isRunning, process, restartCount, timers, spawned, alive>>
           /\ hostExited' = FALSE)]_vars

C19_Witness ==
    /\ Len(calls) = 1
    /\ calls[1].op = "githubSync"
    /\ calls[1].ret = "storeCaught"
    /\ timers = AllTimers
    /\ ~hostExited

\* C20: the first start() returns success and has spawned the child also
\* when the memory snapshot cannot be loaded.
C20_StartSurvivesFailedLoad ==
    (/\ Len(calls) = 1
     /\ Returned(1, "start")
     /\ memoryFile.kind \in {"missing", "corrupt"})
    => (calls[1].ret = "true" /\ spawned = 1)

----------------------------------------------------------------------------
\* C21: a start() on a second supervisor, issued while the first has a live
\* child, the flag set and the marker on disk, answers "already running"
\* (true) and spawns nothing.
C21_SecondStartDetectsMarker ==
    [][(/\ Issues("secondStart")
        /\ pidFile
        /\ isRunning
        /\ process \in alive)
       => (calls'[1].ret = "true" /\ spawned' = spawned)]_vars

----------------------------------------------------------------------------
\* C22: every start(), stop() and restart() of the host that has returned
\* carries a success/failure value, never an exception, and every getStatus()
\* that has returned carries its status object.
C22_HostCallsReturnValues ==
    \A i \in DOMAIN calls :
        /\ calls[i].ret # "thrown"
        /\ (calls[i].pc = "done" /\ calls[i].op \in {"start", "stop", "restart"})
              => calls[i].ret \in {"true", "false"}
        /\ (calls[i].pc = "done" /\ calls[i].op = "status")
              => calls[i].ret = "returned"

\* A start() whose probe failed came back as false, and a stop() whose
\* access() was rejected (no marker on disk) came back as true.
C22_Witness ==
    /\ ~pidFile
    /\ \E i \in DOMAIN calls : Returned(i, "start") /\ calls[i].ret = "false"
    /\ \E i \in DOMAIN calls : Returned(i, "stop") /\ calls[i].ret = "true"

----------------------------------------------------------------------------
\* C23: a step in which a log write settles, appended or rejected, changes no
\* supervisor field, no file other than the log, no call and does not end the
\* host process.
C23_LogWriteSettlesSilently ==
    [][(logPending' < logPending)
       => UNCHANGED <<process, isRunning, restartCount, memoryStore, timers, spawned,
                      pidFile, memoryFile, calls, hostExited, clock, githubAPI,
                      githubConnected, alive, settings>>]_vars

\* A log line was lost, the host process is still there, and the health
\* check that ran came back as passed.
C23_Witness ==
    /\ logLost
    /\ ~hostExited
    /\ Len(calls) = 1
    /\ calls[1].op = "health"
    /\ calls[1].ret = "passed"

----------------------------------------------------------------------------
\* C24: after loadConfiguration() on the object constructed without options,
\* each setting has the value the backgroundAgent section gives it when the
\* section has the field, and its default (3001, info, disabled) otherwise.
C24_PresentFieldsOverride ==
    [][(Issues("loadConfiguration") /\ settings = DefaultSettings)
       => LET sec == configFile.section
              has(f) == /\ configFile.kind = "json"
                        /\ configFile.hasSection
                        /\ f \in sec.present
          IN  /\ settings'.port =
                    IF has("port") THEN sec.port ELSE DefaultSettings.port
              /\ settings'.logLevel =
                    IF has("logLevel") THEN sec.logLevel ELSE DefaultSettings.logLevel
              /\ settings'.autoStart =
                    IF has("autoStart") THEN sec.autoStart
                    ELSE DefaultSettings.autoStart]_vars

----------------------------------------------------------------------------
\* C25: the flag goes from true to false only in a step in which a child's
\* exit is observed or in which a stop() gets past its marker clean-up to
\* line 97; and a child whose exit was observed is never live again, so its
\* observer has nothing to fire on a second time.
C25_FlagClearedOnlyByExitOrStop ==
    [][/\ (isRunning /\ ~isRunning')
          => \/ \E c \in alive : alive' = alive \ {c}
             \/ \E i \in DOMAIN calls :
                   /\ calls[i].pc \in {"access", "rm"}
                   /\ calls'[i].op = calls[i].op
                   /\ calls'[i].pc \in {"cooldown", "done"}
       /\ \A n \in 1..spawned : Child(n) \notin alive => Child(n) \notin alive'
      ]_vars

\* The start-up timer of the only child set the flag, the child exited
\* afterwards, and its observer cleared the flag.
C25_Witness ==
    /\ spawned = 1
    /\ Len(calls) = 1
    /\ calls[1].op = "startMainProcess"
    /\ calls[1].ret = "resolved"
    /\ alive = {}
    /\ ~isRunning

----------------------------------------------------------------------------
\* C26 as stated: in every step that takes the flag from true to false, all
\* three periodic tasks are cancelled.
C26_TasksCancelledWithFlag ==
    [][(isRunning /\ ~isRunning') => timers' = {}]_vars

\* C26 amended: the tasks the handle fields name are armed and cancelled all
\* three together; a stop() that completes and a health check that gives up
\* leave none of them armed.
C26_TasksCancelledByStopAndFailed ==
    [][/\ timers' # timers => (timers = {} /\ timers' = AllTimers) \/ timers' = {}
       /\ (\E i \in DOMAIN calls :
              /\ calls[i].pc \in {"access", "rm"}
              /\ calls'[i].op = calls[i].op
              /\ calls'[i].pc \in {"cooldown", "done"})
          => timers' = {}
       /\ (Issues("health") /\ calls'[1].ret = "failed") => timers' = {}
      ]_vars

\* The health check gave up: its interval was armed when it fired and no
\* task is armed now.
C26_Witness ==
    /\ Len(calls) = 1
    /\ calls[1].op = "health"
    /\ calls[1].ret = "failed"
    /\ timers = {}
    /\ orphaned = {}
    /\ killed = {}
    /\ evicted = {}
    /\ ~isRunning

----------------------------------------------------------------------------
\* C27: while a sync callback is suspended at its fetch, the health interval,
\* if armed, can fire, and when it fires it judges the process and acts on the
\* verdict: a failure is counted, anything else is reported as passed.
C27_HealthCheckNotBehindSync ==
    [][(\E i \in DOMAIN calls : calls[i].op = "githubSync" /\ calls[i].pc = "fetch")
       => /\ ("healthCheckInterval" \in timers /\ ~hostExited
               /\ Len(SelectSeq(calls, Underway)) < MaxOverlap
               /\ restartCount < MaxOverlapTicks)
                 => ENABLED TimerHealthCheck
          /\ (/\ calls' # <<>>
              /\ calls' # calls
              /\ calls' = Append(SelectSeq(calls, Underway), calls'[Len(calls')])
              /\ calls'[Len(calls')].op = "health")
                 => IF HealthVerdict(isRunning, process) = "failure"
                    THEN restartCount' = FailureCount(restartCount)
                    ELSE calls'[Len(calls')].ret = "passed"
      ]_vars

\* A health check ran to its restart decision behind a sync that is still
\* suspended at its fetch.
C27_Witness ==
    /\ Len(calls) = 2
    /\ calls[1].op = "githubSync"
    /\ calls[1].pc = "fetch"
    /\ calls[2].op = "health"
    /\ restartCount > 0

----------------------------------------------------------------------------
\* C28: every stop(), restart() and shutdown handler was begun when all the
\* calls before it had returned, so none begins while another is suspended
\* at an await.
C28_OperationsSerialized ==
    \A i \in DOMAIN calls :
        calls[i].op \in {"stop", "restart", "cleanup"} => calls[i].alone

----------------------------------------------------------------------------
\* C29: the store a memory cleanup leaves is a fixed point of the eviction at
\* the same time: evicting again changes nothing.
C29_EvictionIdempotent ==
    [][Issues("memoryCleanup") => Evict(memoryStore', clock) = memoryStore']_vars

\* A cleanup has evicted an expired entry, which the snapshot on disk still
\* holds, and kept another.
C29_Witness ==
    /\ Len(calls) = 1
    /\ calls[1].op = "memoryCleanup"
    /\ memoryStore # EmptyStore
    /\ memoryFile.kind = "json"
    /\ \E k \in DOMAIN memoryFile.data \ DOMAIN memoryStore :
          Expired(memoryFile.data[k], clock)

----------------------------------------------------------------------------
\* C30: in every state, if the object getStatus() would return reports the
\* flag as true, the supervisor's handle is that of a live child.
C30_RunningMeansAlive ==
    StatusObject(isRunning, process, restartCount, githubConnected,
                 memoryStore).isRunning
        => (process # NULL /\ process \in alive)

----------------------------------------------------------------------------
\* C31: once startMainProcess() has been rejected by a spawn error, which
\* start() turns into a returned failure, the flag is false.
C31_FailedSpawnStaysNotRunning ==
    \A i \in DOMAIN calls :
        (calls[i].op = "startMainProcess" /\ calls[i].ret = "rejected")
            => ~isRunning

\* C32: at most one instance of each periodic task is armed: no interval is
\* left armed without a handle field that names it.
C32_NoOrphanedTimer == orphaned = {}

\* A stop() the host called has returned.
HostStopReturned ==
    \E i \in DOMAIN calls : calls[i].op = "stop" /\ calls[i].pc = "done"

\* C33: a host stop() is final.  When it has returned, the child it found is
\* dead or has been sent SIGKILL, and from then on, until the host starts a
\* process again, no child is spawned and no restart that was in progress
\* gets its start() past the running test of line 53.
C33_HostStopIsFinal ==
    /\ [](HostStopReturned
            => process = NULL \/ process \notin alive \/ process \in killed)
    /\ [][(HostStopReturned /\ ~Issues("startMainProcess"))
            => /\ spawned' = spawned
               /\ alive' \subseteq alive
               /\ \A j \in DOMAIN calls' : calls'[j].pc # "init"]_vars

\* A host stop() has returned while the restart of a health check that found
\* the child dead is still in its cool-down.
C33_Witness ==
    /\ spawned > 0
    /\ \E i, j \in DOMAIN calls :
          /\ j < i
          /\ calls[j].op = "health" /\ calls[j].pc = "cooldown"
          /\ calls[i].op = "stop" /\ calls[i].pc = "done" /\ calls[i].ret = "true"

\* C34: a health check that fires while a host stop() is in progress, after
\* the child has exited and before the tasks are cancelled, counts no failure
\* and starts no restart.
C34_HostStopNotCountedAsFailure ==
    [][(/\ \E i \in DOMAIN calls : calls[i].op = "stop" /\ Underway(calls[i])
        /\ process # NULL /\ process \notin alive
        /\ "healthCheckInterval" \in timers)
            => restartCount' = restartCount]_vars

\* C35: the exit of a process that a stop() gave up waiting for and that has
\* since been replaced does not clear the running flag of its replacement.
C35_LateExitKeepsFlag ==
    [][\A c \in alive :
          (c \notin alive' /\ c \in killed /\ c # process /\ process \in alive'
             /\ isRunning)
              => isRunning']_vars

\* C36: a stop() issued on a child that has already exited (its exit observer
\* has cleared the flag) neither waits for the grace period to run out nor
\* sends the forced kill.
C36_NoForcedKillOfExitedChild ==
    [][\A i \in DOMAIN calls :
          (calls[i].pc = "waitExit" /\ process \notin alive /\ ~isRunning)
              => killed' = killed]_vars

\* C37: when a stop() has returned success, and when the health check has
\* given up ('failed'), no PID marker is on disk.
C37_NoMarkerWhenStoppedOrFailed ==
    \A i \in DOMAIN calls :
        (\/ calls[i].op = "stop" /\ calls[i].pc = "done" /\ calls[i].ret = "true"
         \/ calls[i].op = "health" /\ calls[i].ret = "failed")
            => ~pidFile

\* C38: restartCount never decreases, and a health check enters restart()
\* only on the step that takes the count to one of 1..maxRestarts: over the
\* life of the object at most maxRestarts restarts are health-triggered.
C38_CountMonotonicRestartsBounded ==
    [][/\ restartCount' >= restartCount
       /\ (Issues("health") /\ calls'[1].ret = "none")
            => (/\ restartCount' = restartCount + 1
                /\ restartCount' \in 1..maxRestarts)]_vars

\* The count has passed the ceiling and the health check has given up.
C38_Witness ==
    /\ restartCount = maxRestarts + 1
    /\ \E i \in DOMAIN calls : calls[i].op = "health" /\ calls[i].ret = "failed"

\* C39: an entry that has been evicted is not in the Map again, whatever was
\* loaded since and whatever became of the snapshot write.
C39_EvictedNeverReappears == evicted \cap DOMAIN memoryStore = {}

====
